---- MODULE Spec2Model ----
(***************************************************************************)
(* The batch extraction pipeline of DocuExtract Pro.                       *)
(*                                                                         *)
(* The repository holds two orchestrators over the same React state:       *)
(*   mode = "par"  the App of src/App.tsx (files.map + Promise.all)        *)
(*   mode = "seq"  the App of src/services/geminiService.ts (for loop)     *)
(* Both call extractDataFromDocument and the OCR adapters of               *)
(* src/utils/ocrUtils.ts.  A state of the model is the React state after   *)
(* one event handler or one promise continuation has run to its next       *)
(* await; every action is one such macrotask.                              *)
(***************************************************************************)
EXTENDS Integers, Sequences, FiniteSets, TLC

\* ------------------------------------------------------------------ bounds
MaxIds == 2        \* documents added over a session
MaxRuns == 2       \* processBatch runs started over a session
MaxReaders == 1    \* FileReader loads pending at once
MaxOcrLen == 4     \* characters of an OCR text put before the request builder

VARIABLES
    mode,              \* which App is running: "par" | "seq"
    ocrRejects,        \* whether the OCR collaborator may reject its promise
    apiKey,            \* whether process.env.API_KEY is set
    files,             \* useState<FileDataExtended[]>
    status,            \* useState<ExtractionStatus>
    data,              \* useState<ExtractedItem[]>
    error,             \* useState<string | null>
    isOcrEnabled,      \* useState<boolean>
    headerMapping,     \* useState<Record<string,string>>, as ordered key/name pairs
    currentFileIndex,  \* useState<number> (sequential App only)
    nextId,            \* ids handed out so far (Math.random ids are fresh)
    readers,           \* FileReader loads started and not yet delivered
    runs,              \* the processBatch invocations: closure and position of each
    last,              \* the step just taken: the run that returned in it (or 0), and
                       \* the task and the kind of response a model call delivered in
                       \* it; op is "reset" after a click on Reset and "remove" after
                       \* a click on a queue entry's X
    sheet,             \* what the step just taken handed to XLSX.utils.json_to_sheet
    response,          \* a response of the model put before extractDataFromDocument alone
    result,            \* what extractDataFromDocument made of it
    call,              \* arguments put before extractDataFromDocument alone
    request            \* the parts it built from them for generateContent

vars == <<mode, ocrRejects, apiKey, files, status, data, error, isOcrEnabled, headerMapping,
          currentFileIndex, nextId, readers, runs, last, sheet, response, result,
          call, request>>

\* ------------------------------------------------------------- types.ts
IDLE == "IDLE"
PROCESSING == "PROCESSING"
SUCCESS == "SUCCESS"
ERROR == "ERROR"

Null == "null"
NoDataMessage == "No data could be extracted. Please check the documents."

PDF == "application/pdf"
JPEG == "image/jpeg"
PLAIN == "text/plain"
\* What the file input delivers here.  accept="image/*,.pdf" is a picker hint only and
\* nothing checks file.type, so any type gets in; the orchestrators treat
\* application/pdf and image/* alike (NeedsOcrCall), and the image documents of the
\* model come from the camera.
UploadTypes == {PLAIN}

\* constants.tsx: the allow-list and the size limit (no handler reads them)
SUPPORTED_FILE_TYPES == {"image/png", "image/jpeg", "image/webp", "application/pdf"}
MAX_FILE_SIZE == 10 * 1024 * 1024

\* the File objects the input hands to handleFileUpload: type and size in bytes
Uploads ==
    {[mimeType |-> t, size |-> 1] : t \in UploadTypes}
        \cup {[mimeType |-> JPEG, size |-> MAX_FILE_SIZE + 1]}

IsImage(mimeType) == mimeType \in {JPEG, "image/png", "image/webp"}

NewFile(id, mimeType) ==
    [id |-> id, mimeType |-> mimeType, status |-> "pending", ocrStatus |-> "idle"]

\* ------------------------------------------------------- rows and responses
\* An ExtractedItem is an ordered key/value mapping; NonRecord stands for the
\* undefined/null that result.extracted_data is when the parsed object has no array.
Pair(k, v) == [k |-> k, v |-> v]
Rec(kv) == [kind |-> "record", kv |-> kv]
NonRecord == [kind |-> "nonrecord", kv |-> <<>>]

\* the rows a response for document id in run r carries: values name run, document, cell
Cell(r, id, j) == r * 100 + id * 10 + j
RowA(r, id) == Rec(<<Pair("A", Cell(r, id, 1))>>)
RowBA(r, id) == Rec(<<Pair("B", Cell(r, id, 2)), Pair("A", Cell(r, id, 3))>>)
RowLists(r, id) == {<<>>, <<RowA(r, id), RowBA(r, id)>>}

\* parsed JSON values
JArray(rows) == [t |-> "object", ed |-> "array", rows |-> rows]
JNoArray == [t |-> "object", ed |-> "absent", rows |-> <<>>]
JNull == [t |-> "null", ed |-> "absent", rows |-> <<>>]
JValues(r, id) == {JArray(rows) : rows \in RowLists(r, id)} \cup {JNoArray}

\* a response text is a sequence of tokens
Tok(c, v) == [c |-> c, v |-> v]
FENCE == Tok("fence", JNull)       \* three backquotes
JSONTAG == Tok("json", JNull)
WS == Tok("ws", JNull)
JUNK == Tok("not json", JNull)
Val(v) == Tok("value", v)

\* what ai.models.generateContent gives back for document id in run r
Reject == [kind |-> "reject", has |-> FALSE, text |-> <<>>]
NoText == [kind |-> "text", has |-> FALSE, text |-> <<>>]       \* response.text undefined
Text(t) == [kind |-> "text", has |-> TRUE, text |-> t]
\* (fenced texts are put before extractDataFromDocument on its own, see FenceTexts)
Responses(r, id) ==
    {Reject, NoText, Text(<<>>), Text(<<JUNK>>)}
        \cup {Text(<<Val(v)>>) : v \in JValues(r, id)}

\* the kind of a response, read off the response itself
RespClass(resp) ==
    IF resp.kind = "reject" THEN "reject"
    ELSE IF ~resp.has \/ resp.text = <<>> THEN "none"
    ELSE IF \E n \in 1..Len(resp.text) : resp.text[n] = JUNK THEN "junk"
    ELSE "json"
RespValue(resp) ==
    IF RespClass(resp) # "json" THEN "-"
    ELSE LET n == CHOOSE n \in 1..Len(resp.text) : resp.text[n].c = "value"
         IN IF resp.text[n].v.t = "null" THEN "null" ELSE resp.text[n].v.ed

NoCall == [fin |-> 0, op |-> "-", r |-> 0, k |-> 0, inp |-> "-", jv |-> "-", lib |-> "-"]

\* ------------------------------------------------ extractDataFromDocument
RECURSIVE TrimStart(_)
TrimStart(t) == IF Len(t) > 0 /\ t[1] = WS THEN TrimStart(Tail(t)) ELSE t
RECURSIVE TrimEnd(_)
TrimEnd(t) ==
    IF Len(t) > 0 /\ t[Len(t)] = WS THEN TrimEnd(SubSeq(t, 1, Len(t) - 1)) ELSE t
Trim(t) == TrimEnd(TrimStart(t))

\* text.replace(/^```json\s*|```$/g, '')
StripFence(t) ==
    LET a == IF Len(t) >= 2 /\ t[1] = FENCE /\ t[2] = JSONTAG
             THEN TrimStart(SubSeq(t, 3, Len(t)))
             ELSE t
    IN IF Len(a) > 0 /\ a[Len(a)] = FENCE THEN SubSeq(a, 1, Len(a) - 1) ELSE a

\* JSON.parse: one JSON value, white space allowed around it
JSONParse(t) ==
    LET u == Trim(t)
    IN IF Len(u) = 1 /\ u[1].c = "value"
       THEN [ok |-> TRUE, value |-> u[1].v]
       ELSE [ok |-> FALSE, value |-> JNull]

Thrown(msg) == [thrown |-> TRUE, err |-> msg, value |-> JNull]
Gave(v) == [thrown |-> FALSE, err |-> "", value |-> v]

Did(res) == IF res.thrown THEN "threw" ELSE IF res.value.t = "null" THEN "null"
            ELSE res.value.ed

\* an extractDataFromDocument without its check for an empty response
extractDataFromDocumentUnchecked(resp) ==
    IF resp.kind = "reject" THEN Thrown("request failed")
    ELSE LET p == JSONParse(StripFence(Trim(resp.text)))
         IN IF p.ok THEN Gave(p.value) ELSE Thrown("invalid structured response")

\* the part of extractDataFromDocument after the model call
extractDataFromDocument(resp) ==
    IF resp.kind = "reject" THEN Thrown("request failed")
    ELSE IF ~resp.has \/ resp.text = <<>> THEN Thrown("Empty response from AI")
    ELSE LET p == JSONParse(StripFence(Trim(resp.text)))
         IN IF p.ok THEN Gave(p.value) ELSE Thrown("invalid structured response")

NoResult == [done |-> FALSE, res |-> Thrown("")]
Result(res) == [done |-> TRUE, res |-> res]

\* -------------------------------------- extractDataFromDocument: the request
\* the optional ocrText argument: left out, or a string (a sequence of WS and WORD)
WORD == Tok("word", JNull)
Undefined == [def |-> FALSE, text |-> <<>>]
Str(t) == [def |-> TRUE, text |-> t]

\* JavaScript truthiness of a string or undefined
Truthy(s) == s.def /\ s.text # <<>>

SUPPLEMENT == Tok("SUPPLEMENTAL OCR TEXT LAYER", JNull)
MANDATORY == Tok("MANDATORY: Extract ALL data", JNull)

\* the parts of a request
InlinePart(base64Data, mimeType) ==
    [part |-> "inlineData", data |-> base64Data, mimeType |-> mimeType, text |-> <<>>]
TextPart(t) == [part |-> "text", data |-> "-", mimeType |-> "-", text |-> t]

\* a builder that pushes the OCR part for every non-empty ocrText
PartsNoTrim(base64Data, mimeType, ocrText) ==
    <<InlinePart(base64Data, mimeType)>>
        \o (IF Truthy(ocrText) THEN <<TextPart(<<SUPPLEMENT>> \o ocrText.text)>> ELSE <<>>)
        \o <<TextPart(<<MANDATORY>>)>>

\* const parts = [{inlineData}]; if (ocrText && ocrText.trim()) parts.push({text});
\* parts.push({text: "MANDATORY: ..."})
Parts(base64Data, mimeType, ocrText) ==
    <<InlinePart(base64Data, mimeType)>>
        \o (IF Truthy(ocrText) /\ Truthy(Str(Trim(ocrText.text)))
            THEN <<TextPart(<<SUPPLEMENT>> \o ocrText.text)>>
            ELSE <<>>)
        \o <<TextPart(<<MANDATORY>>)>>

NoArgs == [base64Data |-> "-", mimeType |-> "-", ocrText |-> Undefined]
NoRequest == [built |-> FALSE, parts |-> <<>>]
Request(parts) == [built |-> TRUE, parts |-> parts]

\* ------------------------------------------------------------ React state
\* what the handlers write; a handler's setState calls are folded in call order
St == [files |-> files, status |-> status, data |-> data, error |-> error,
       headerMapping |-> headerMapping, currentFileIndex |-> currentFileIndex]

\* an update that is not scoped by id: every entry takes the value
SetEvery(fs, id, field, v) == [n \in 1..Len(fs) |-> [fs[n] EXCEPT ![field] = v]]

\* setFiles(prev => prev.map(f => f.id === id ? {...f, [field]: v} : f))
SetById(fs, id, field, v) ==
    [n \in 1..Len(fs) |-> IF fs[n].id = id THEN [fs[n] EXCEPT ![field] = v] ELSE fs[n]]

\* setFiles(prev => prev.map((f, idx) => idx === i ? {...f, [field]: v} : f))
SetByIdx(fs, i, field, v) ==
    [n \in 1..Len(fs) |-> IF n = i THEN [fs[n] EXCEPT ![field] = v] ELSE fs[n]]

\* keys.forEach(k => initialMapping[k] = k)
InitialMapping(row) == [n \in 1..Len(row.kv) |-> Pair(row.kv[n].k, row.kv[n].k)]

\* ------------------------------------------------------------------- runs
RetArray(rows) == [arr |-> TRUE, rows |-> rows]
RetOther == [arr |-> FALSE, rows |-> <<>>]

\* res: what extractDataFromDocument did for the task ("threw", or the shape it returned)
NewTask == [pc |-> "idle", ocrText |-> "", ocrOut |-> "-", res |-> "-",
            ret |-> RetArray(<<>>)]

\* a dispatch that hands every document to an OCR adapter
NeedsOcrCallAny(f) == TRUE

\* if (mimeType === 'application/pdf') ... else if (mimeType.startsWith('image/')) ...
NeedsOcrCall(f) == f.mimeType = PDF \/ IsImage(f.mimeType)

\* a flat() that takes the callbacks' results last-first
RECURSIVE FlatReversed(_)
FlatReversed(tasks) ==
    IF tasks = <<>> THEN <<>>
    ELSE FlatReversed(Tail(tasks))
            \o (IF tasks[1].ret.arr THEN tasks[1].ret.rows ELSE <<NonRecord>>)

\* results.flat(): arrays are spread, anything else stays as one element
RECURSIVE Flat(_)
Flat(tasks) ==
    IF tasks = <<>> THEN <<>>
    ELSE (IF tasks[1].ret.arr THEN tasks[1].ret.rows ELSE <<NonRecord>>) \o Flat(Tail(tasks))

AllDone(tasks) == \A n \in 1..Len(tasks) : tasks[n].pc = "done"

NewRun(fs, ocr) ==
    [snap |-> fs, ocr |-> ocr, i |-> 1, acc |-> <<>>, pc |-> "running",
     task |-> [n \in 1..Len(fs) |-> NewTask]]

InFlight(r) == runs[r].pc = "running"

\* a run that has returned holds nothing the program can still read: its record is
\* kept for the step in which it returns and blanked by the next one
Returned == [NewRun(<<>>, FALSE) EXCEPT !.pc = "done"]
Live == [r \in 1..Len(runs) |-> IF InFlight(r) THEN runs[r] ELSE Returned]

\* an orchestrator step yields the React state and the run's own position
Step(st, run) == [st |-> st, run |-> run]

\* what awaiting extractDataFromDocument can deliver.  Without a key either the
\* GoogleGenAI constructor throws or the request is refused: the promise rejects
CallOutcomes(r, id) == IF apiKey THEN Responses(r, id) ELSE {Reject}

\* what the library under an OCR adapter (pdfjs-dist, tesseract.js) does with the
\* bytes: it delivers the text it found, or it throws or rejects
LibRead(text) == [ok |-> TRUE, text |-> text]
LibFailed == [ok |-> FALSE, text |-> ""]
LibOutcomes == {LibRead("text"), LibRead(""), LibFailed}

\* utils/ocrUtils.ts: the whole body stands in a try whose catch returns ''
extractTextFromPdf(lib) == IF lib.ok THEN lib.text ELSE ""

\* performImageOcr without its try: the recognizer's rejection reaches the caller
performImageOcrNoCatch(lib) == IF lib.ok THEN lib.text ELSE "reject"

\* utils/ocrUtils.ts: the whole body stands in a try whose catch returns ''
performImageOcr(lib) == IF lib.ok THEN lib.text ELSE ""

\* an OCR collaborator that passes the library's failure on
Rejecting(lib) == IF lib.ok THEN lib.text ELSE "reject"

\* what the awaited OCR call of a document delivers: a string, or "reject"
OcrCall(f, lib) ==
    IF ocrRejects THEN Rejecting(lib)
    ELSE IF f.mimeType = PDF THEN extractTextFromPdf(lib)
    ELSE performImageOcr(lib)

\* ------------------------------------------- parallel orchestrator (App.tsx)
\* one map callback up to its first await
ParStartFile(fs, f, ocr) ==
    LET a == SetById(fs, f.id, "status", "processing")
        b == SetById(a, f.id, "ocrStatus", "running")
    IN IF ~ocr THEN a
       ELSE IF NeedsOcrCall(f) THEN b
       ELSE SetById(b, f.id, "ocrStatus", "done")

\* a map callback that issues the extraction call without awaiting the OCR call
ParStartTaskNoOcrAwait(f, ocr) == [NewTask EXCEPT !.pc = "extract"]

\* where a map callback stands at its first await
ParStartTask(f, ocr) ==
    IF ocr /\ NeedsOcrCall(f) THEN [NewTask EXCEPT !.pc = "ocr"]
    ELSE [NewTask EXCEPT !.pc = "extract", !.ocrOut = IF ocr THEN "nocall" ELSE "-"]

\* a dispatch that starts the first document only
ParStartAllHeadOnly(fs, snap, ocr) ==
    IF snap = <<>> THEN fs ELSE ParStartFile(fs, snap[1], ocr)

\* files.map(async (file) => ...): every callback runs up to its first await
RECURSIVE ParStartAll(_, _, _)
ParStartAll(fs, snap, ocr) ==
    IF snap = <<>> THEN fs
    ELSE ParStartAll(ParStartFile(fs, snap[1], ocr), Tail(snap), ocr)

\* after await Promise.all(extractionPromises)
ParFinish(st, run) ==
    LET combinedData == Flat(run.task)
    IN IF Len(combinedData) = 0 /\ Len(run.snap) > 0
       THEN [st EXCEPT !.error = NoDataMessage, !.status = ERROR]
       ELSE LET s1 == [st EXCEPT !.data = combinedData, !.status = SUCCESS]
            IN \* Object.keys(undefined) throws: nothing after it runs
               IF Len(combinedData) > 0 /\ combinedData[1].kind = "record"
               THEN [s1 EXCEPT !.headerMapping = InitialMapping(combinedData[1])]
               ELSE s1

\* Promise.all settles in the macrotask in which the last callback returns
ParJoin(st, run) ==
    IF AllDone(run.task)
    THEN Step(ParFinish(st, run), [run EXCEPT !.pc = "done"])
    ELSE Step(st, run)

\* the continuation of a map callback after its OCR await
ParAfterOcr(st, run, k, out) ==
    LET id == run.snap[k].id
    IN IF out = "reject"
       THEN \* the callback's only catch
            ParJoin([st EXCEPT !.files = SetById(st.files, id, "status", "error")],
                    [run EXCEPT !.task[k].pc = "done", !.task[k].ocrOut = "reject",
                                !.task[k].ret = RetArray(<<>>)])
       ELSE Step([st EXCEPT !.files = SetById(st.files, id, "ocrStatus", "done")],
                 [run EXCEPT !.task[k].pc = "extract", !.task[k].ocrText = out,
                             !.task[k].ocrOut = "resolved"])

\* a map callback without its catch: a throw of the call ends processBatch there
ParAfterExtractNoCatch(st, run, k, resp) ==
    LET id == run.snap[k].id
        res == extractDataFromDocument(resp)
        seen == [run EXCEPT !.task[k].pc = "done", !.task[k].ocrText = "",
                            !.task[k].res = Did(res)]
    IN IF res.thrown THEN Step(st, [seen EXCEPT !.pc = "done"])
       ELSE ParJoin([st EXCEPT !.files = SetById(st.files, id, "status", "completed")],
                    [seen EXCEPT !.task[k].ret =
                        IF res.value.ed = "array" THEN RetArray(res.value.rows)
                        ELSE RetOther])

\* the continuation of a map callback after await extractDataFromDocument
ParAfterExtract(st, run, k, resp) ==
    LET id == run.snap[k].id
        res == extractDataFromDocument(resp)
        seen == [run EXCEPT !.task[k].pc = "done", !.task[k].ocrText = "",
                            !.task[k].res = Did(res)]
        failed == [st EXCEPT !.files = SetById(st.files, id, "status", "error")]
    IN IF res.thrown THEN ParJoin(failed, seen)
       ELSE IF res.value.t = "null"
       THEN \* completed is set, then result.extracted_data throws into the catch
            ParJoin(failed, seen)
       ELSE ParJoin([st EXCEPT !.files = SetById(st.files, id, "status", "completed")],
                    [seen EXCEPT !.task[k].ret =
                        IF res.value.ed = "array" THEN RetArray(res.value.rows)
                        ELSE RetOther])

\* processBatch up to await Promise.all
ParProcessBatch(st, fs, ocr) ==
    Step([st EXCEPT !.status = PROCESSING, !.error = Null,
                    !.files = ParStartAll(st.files, fs, ocr)],
         [NewRun(fs, ocr) EXCEPT !.task = [n \in 1..Len(fs) |-> ParStartTask(fs[n], ocr)]])

\* ------------------------- sequential orchestrator (services/geminiService.ts)
\* a loop that reads the OCR switch of the moment at every document
SeqLoopLiveSetting(st, run) ==
    LET i == run.i
    IN IF i > Len(run.snap)
       THEN LET s1 == [st EXCEPT !.data = run.acc, !.status = SUCCESS,
                                 !.currentFileIndex = -1]
            IN Step(IF Len(run.acc) > 0
                    THEN [s1 EXCEPT !.headerMapping = InitialMapping(run.acc[1])]
                    ELSE s1,
                    [run EXCEPT !.pc = "done"])
       ELSE LET a == SetByIdx(st.files, i, "status", "processing")
                b == SetByIdx(a, i, "ocrStatus", "running")
                s1 == [st EXCEPT !.currentFileIndex = i - 1]
            IN IF ~isOcrEnabled
               THEN Step([s1 EXCEPT !.files = a], [run EXCEPT !.task[i].pc = "extract"])
               ELSE IF NeedsOcrCall(run.snap[i])
               THEN Step([s1 EXCEPT !.files = b], [run EXCEPT !.task[i].pc = "ocr"])
               ELSE Step([s1 EXCEPT !.files = SetByIdx(b, i, "ocrStatus", "done")],
                         [run EXCEPT !.task[i].pc = "extract",
                                     !.task[i].ocrOut = "nocall"])
\* the loop from its head with i = run.i up to the next await, or the code after it
SeqLoop(st, run) ==
    LET i == run.i
    IN IF i > Len(run.snap)
       THEN LET s1 == [st EXCEPT !.data = run.acc, !.status = SUCCESS,
                                 !.currentFileIndex = -1]
            IN Step(IF Len(run.acc) > 0
                    THEN [s1 EXCEPT !.headerMapping = InitialMapping(run.acc[1])]
                    ELSE s1,
                    [run EXCEPT !.pc = "done"])
       ELSE LET a == SetByIdx(st.files, i, "status", "processing")
                b == SetByIdx(a, i, "ocrStatus", "running")
                s1 == [st EXCEPT !.currentFileIndex = i - 1]
            IN IF ~run.ocr
               THEN Step([s1 EXCEPT !.files = a], [run EXCEPT !.task[i].pc = "extract"])
               ELSE IF NeedsOcrCall(run.snap[i])
               THEN Step([s1 EXCEPT !.files = b], [run EXCEPT !.task[i].pc = "ocr"])
               ELSE Step([s1 EXCEPT !.files = SetByIdx(b, i, "ocrStatus", "done")],
                         [run EXCEPT !.task[i].pc = "extract",
                                     !.task[i].ocrOut = "nocall"])

\* the loop body after its OCR await
SeqAfterOcr(st, run, out) ==
    LET i == run.i
    IN IF out = "reject"
       THEN \* the inner catch: the body goes on with ocrText = ''
            Step([st EXCEPT !.files = SetByIdx(st.files, i, "ocrStatus", "error")],
                 [run EXCEPT !.task[i].pc = "extract", !.task[i].ocrText = "",
                             !.task[i].ocrOut = "reject"])
       ELSE Step([st EXCEPT !.files = SetByIdx(st.files, i, "ocrStatus", "done")],
                 [run EXCEPT !.task[i].pc = "extract", !.task[i].ocrText = out,
                             !.task[i].ocrOut = "resolved"])

\* the loop body after await extractDataFromDocument, and on to the next await
SeqAfterExtract(st, run, resp) ==
    LET i == run.i
        res == extractDataFromDocument(resp)
        seen == [run EXCEPT !.task[i].pc = "done", !.task[i].ocrText = "",
                            !.task[i].res = Did(res), !.i = i + 1]
    IN IF ~res.thrown /\ res.value.t = "object" /\ res.value.ed = "array"
       THEN SeqLoop([st EXCEPT !.files = SetByIdx(st.files, i, "status", "completed")],
                    [seen EXCEPT !.acc = run.acc \o res.value.rows,
                                 !.task[i].ret = RetArray(res.value.rows)])
       ELSE \* a throw of the call, of result.extracted_data or of the spread
            SeqLoop([st EXCEPT !.files = SetByIdx(st.files, i, "status", "error")], seen)

\* processBatch up to its first await
SeqProcessBatch(st, fs, ocr) ==
    SeqLoop([st EXCEPT !.status = PROCESSING, !.error = Null], NewRun(fs, ocr))

\* ------------------------------------------------------ mapping and export
NoSheet == [written |-> FALSE, rows |-> <<>>]
Sheet(rows) == [written |-> TRUE, rows |-> rows]

HasKey(kv, k) == \E n \in 1..Len(kv) : kv[n].k = k
Get(kv, k) == kv[CHOOSE n \in 1..Len(kv) : kv[n].k = k].v

\* obj[k] = v on an object with ordered keys: an existing key keeps its place
Put(kv, k, v) ==
    IF HasKey(kv, k)
    THEN [n \in 1..Len(kv) |-> IF kv[n].k = k THEN Pair(k, v) ELSE kv[n]]
    ELSE Append(kv, Pair(k, v))

\* a mapped key that falls back on nothing
MappedKeyNoFallback(mapping, key) == IF HasKey(mapping, key) THEN Get(mapping, key) ELSE ""

\* headerMapping[key] || key
MappedKey(mapping, key) ==
    IF HasKey(mapping, key) /\ Get(mapping, key) # "" THEN Get(mapping, key) ELSE key

\* Object.keys(item).forEach(key => newItem[mappedKey] = item[key]), from key n on
RECURSIVE MapItem(_, _, _, _)
MapItem(kv, mapping, n, newItem) ==
    IF n > Len(kv) THEN newItem
    ELSE MapItem(kv, mapping, n + 1,
                 Put(newItem, MappedKey(mapping, kv[n].k), kv[n].v))

\* excelUtils: downloadAsExcel
downloadAsExcel(rows) == IF Len(rows) = 0 THEN NoSheet ELSE Sheet(rows)

\* geminiService.ts: handleExport
handleExport(rows, mapping) ==
    IF Len(rows) = 0 THEN NoSheet
    ELSE downloadAsExcel([n \in 1..Len(rows) |->
                            Rec(MapItem(rows[n].kv, mapping, 1, <<>>))])

\* Object.keys(row): the keys in insertion order
Keys(row) == [n \in 1..Len(row.kv) |-> row.kv[n].k]

\* Array.from(new Set(keys)): the first occurrence of every key, in order
RECURSIVE Dedup(_)
Dedup(keys) ==
    IF keys = <<>> THEN <<>>
    ELSE LET front == Dedup(SubSeq(keys, 1, Len(keys) - 1))
             k == keys[Len(keys)]
         IN IF \E n \in 1..Len(front) : front[n] = k THEN front ELSE Append(front, k)

\* a header list made of the keys of every row
RECURSIVE originalHeadersAllRows(_)
originalHeadersAllRows(rows) ==
    IF rows = <<>> THEN <<>>
    ELSE Dedup(Keys(rows[1]) \o originalHeadersAllRows(Tail(rows)))

\* App.tsx: data.length > 0 ? Object.keys(data[0]) : []; geminiService.ts puts the
\* keys through a Set
originalHeaders(rows) ==
    IF Len(rows) = 0 THEN <<>>
    ELSE IF mode = "par" THEN Keys(rows[1])
    ELSE Dedup(Keys(rows[1]))

\* the names typed into the mapping dialog
SaveNames == {"X"}

\* ----------------------------------------------------------------- actions
Write(st) ==
    /\ files' = st.files
    /\ status' = st.status
    /\ data' = st.data
    /\ error' = st.error
    /\ headerMapping' = st.headerMapping
    /\ currentFileIndex' = st.currentFileIndex

Fin(run, r) == IF run.pc = "done" THEN r ELSE 0

\* an orchestrator step of run r
Commit(x, r) ==
    /\ Write(x.st)
    /\ runs' = [Live EXCEPT ![r] = x.run]
    /\ sheet' = NoSheet

AfterOcr(x, r, k, out, lib) ==
    /\ Commit(x, r)
    /\ last' = [fin |-> Fin(x.run, r), op |-> "ocr", r |-> r, k |-> k,
                inp |-> IF out = "reject" THEN "reject" ELSE "resolved", jv |-> "-",
                lib |-> IF lib.ok THEN "read" ELSE "failed"]

AfterExtract(x, r, k, resp) ==
    /\ Commit(x, r)
    /\ last' = [fin |-> Fin(x.run, r), op |-> "extract", r |-> r, k |-> k,
                inp |-> RespClass(resp), jv |-> RespValue(resp), lib |-> "-"]

\* a user's event handler
Handled(st) ==
    /\ Write(st)
    /\ runs' = Live
    /\ last' = NoCall
    /\ sheet' = NoSheet

\* The render reads Object.keys(data[0]) and row[header] of every row: with an
\* undefined element in data it throws, and React takes the App off the page.
Mounted == \A n \in 1..Len(data) : data[n].kind = "record"

\* the buttons that are rendered only while status !== PROCESSING
TriggerShown == Mounted /\ Len(files) > 0 /\ status # PROCESSING
ResetShown == Mounted /\ Len(files) > 0 /\ status # PROCESSING
RemoveShown == Mounted /\ status # PROCESSING

\* the mapping and export buttons of the header
ExportShown == Mounted /\ Len(data) > 0

RoomForFile == nextId + Len(readers) < MaxIds

\* the file input's onChange: one FileReader per file, then setError and setStatus
handleFileUpload ==
    /\ Mounted
    /\ RoomForFile
    /\ Len(readers) < MaxReaders
    /\ \E file \in Uploads : readers' = Append(readers, file)
    /\ Handled([St EXCEPT !.error = Null, !.status = IDLE])
    /\ UNCHANGED <<mode, ocrRejects, apiKey, response, result, call, request, isOcrEnabled, nextId>>

addFileToQueue(st, f) ==
    IF mode = "par"
    THEN [st EXCEPT !.files = Append(st.files, f), !.error = Null]
    ELSE [st EXCEPT !.files = Append(st.files, f), !.error = Null, !.status = IDLE]

\* reader.onload of a pending FileReader
ReaderOnload ==
    \E n \in 1..Len(readers) :
        /\ Handled(addFileToQueue(St, NewFile(nextId + 1, readers[n].mimeType)))
        /\ readers' = SubSeq(readers, 1, n - 1) \o SubSeq(readers, n + 1, Len(readers))
        /\ nextId' = nextId + 1
        /\ UNCHANGED <<mode, ocrRejects, apiKey, response, result, call, request, isOcrEnabled>>

handleCameraCapture ==
    /\ Mounted
    /\ RoomForFile
    /\ Handled(addFileToQueue(St, NewFile(nextId + 1, JPEG)))
    /\ nextId' = nextId + 1
    /\ UNCHANGED <<mode, ocrRejects, apiKey, response, result, call, request, isOcrEnabled, readers>>

Without(fs, id) == SelectSeq(fs, LAMBDA f : f.id # id)

\* App.tsx: the X button's inline setFiles(f => f.filter(x => x.id !== file.id))
RemoveInline(st, id) == [st EXCEPT !.files = Without(st.files, id)]

\* a removeFile that only filters the queue
removeFileNoClear(st, id) == [st EXCEPT !.files = Without(st.files, id)]

\* geminiService.ts: removeFile
removeFile(st, id) ==
    LET s1 == [st EXCEPT !.files = Without(st.files, id)]
    IN IF Len(st.files) <= 1
       THEN [s1 EXCEPT !.data = <<>>, !.status = IDLE, !.headerMapping = <<>>]
       ELSE s1

Remove ==
    /\ RemoveShown
    /\ \E n \in 1..Len(files) :
          Write(IF mode = "par" THEN RemoveInline(St, files[n].id)
                ELSE removeFile(St, files[n].id))
    /\ runs' = Live
    /\ last' = [NoCall EXCEPT !.op = "remove"]
    /\ sheet' = NoSheet
    /\ UNCHANGED <<mode, ocrRejects, apiKey, response, result, call, request, isOcrEnabled, nextId, readers>>

reset ==
    /\ ResetShown
    /\ Write([St EXCEPT !.files = <<>>, !.data = <<>>, !.status = IDLE,
                        !.error = Null, !.headerMapping = <<>>,
                        !.currentFileIndex = -1])
    /\ runs' = Live
    /\ last' = [NoCall EXCEPT !.op = "reset"]
    /\ sheet' = NoSheet
    /\ UNCHANGED <<mode, ocrRejects, apiKey, response, result, call, request, isOcrEnabled, nextId, readers>>

\* App.tsx: the error banner's X
DismissError ==
    /\ Mounted
    /\ mode = "par"
    /\ error # Null
    /\ Handled([St EXCEPT !.error = Null])
    /\ UNCHANGED <<mode, ocrRejects, apiKey, response, result, call, request, isOcrEnabled, nextId, readers>>

ToggleOcr ==
    /\ Mounted
    /\ isOcrEnabled' = ~isOcrEnabled
    /\ runs' = Live
    /\ last' = NoCall
    /\ sheet' = NoSheet
    /\ UNCHANGED <<mode, ocrRejects, apiKey, response, result, call, request, files, status, data, error, headerMapping,
                   currentFileIndex, nextId, readers>>

\* the mapping dialog: opened, one header renamed (handleChange), Apply Changes
SaveMapping ==
    /\ ExportShown
    /\ \E n \in 1..Len(data[1].kv) : \E name \in SaveNames :
          Handled([St EXCEPT !.headerMapping = Put(headerMapping, data[1].kv[n].k, name)])
    /\ UNCHANGED <<mode, ocrRejects, apiKey, response, result, call, request, isOcrEnabled, nextId, readers>>

\* the Export button: App.tsx hands data over as it is, geminiService.ts maps it
Export ==
    /\ ExportShown
    /\ Write(St)
    /\ runs' = Live
    /\ last' = NoCall
    /\ sheet' = IF mode = "par" THEN downloadAsExcel(data)
                ELSE handleExport(data, headerMapping)
    /\ UNCHANGED <<mode, ocrRejects, apiKey, response, result, call, request, isOcrEnabled, nextId, readers>>

\* a click on the trigger: processBatch of the current render
processBatch ==
    /\ TriggerShown
    /\ Len(runs) < MaxRuns
    /\ LET x == IF mode = "par" THEN ParProcessBatch(St, files, isOcrEnabled)
                ELSE SeqProcessBatch(St, files, isOcrEnabled)
       IN /\ Write(x.st)
          /\ runs' = Append(Live, x.run)
          /\ last' = NoCall
          /\ sheet' = NoSheet
    /\ UNCHANGED <<mode, ocrRejects, apiKey, response, result, call, request, isOcrEnabled, nextId, readers>>

ParOcrSettles ==
    /\ mode = "par"
    /\ \E r \in 1..Len(runs) : \E k \in 1..Len(runs[r].task) : \E lib \in LibOutcomes :
          /\ runs[r].task[k].pc = "ocr"
          /\ LET out == OcrCall(runs[r].snap[k], lib)
             IN AfterOcr(ParAfterOcr(St, runs[r], k, out), r, k, out, lib)
    /\ UNCHANGED <<mode, ocrRejects, apiKey, response, result, call, request, isOcrEnabled, nextId, readers>>

ParExtractSettles ==
    /\ mode = "par"
    /\ \E r \in 1..Len(runs) : \E k \in 1..Len(runs[r].task) :
          /\ runs[r].task[k].pc = "extract"
          /\ \E resp \in CallOutcomes(r, runs[r].snap[k].id) :
                AfterExtract(ParAfterExtract(St, runs[r], k, resp), r, k, resp)
    /\ UNCHANGED <<mode, ocrRejects, apiKey, response, result, call, request, isOcrEnabled, nextId, readers>>

SeqOcrSettles ==
    /\ mode = "seq"
    /\ \E r \in 1..Len(runs) : \E lib \in LibOutcomes :
          /\ InFlight(r)
          /\ runs[r].task[runs[r].i].pc = "ocr"
          /\ LET out == OcrCall(runs[r].snap[runs[r].i], lib)
             IN AfterOcr(SeqAfterOcr(St, runs[r], out), r, runs[r].i, out, lib)
    /\ UNCHANGED <<mode, ocrRejects, apiKey, response, result, call, request, isOcrEnabled, nextId, readers>>

SeqExtractSettles ==
    /\ mode = "seq"
    /\ \E r \in 1..Len(runs) :
          /\ InFlight(r)
          /\ runs[r].task[runs[r].i].pc = "extract"
          /\ \E resp \in CallOutcomes(r, runs[r].snap[runs[r].i].id) :
                AfterExtract(SeqAfterExtract(St, runs[r], resp), r, runs[r].i, resp)
    /\ UNCHANGED <<mode, ocrRejects, apiKey, response, result, call, request, isOcrEnabled, nextId, readers>>

\* ------------------------------------------------------------ specification
InitApp ==
    /\ mode \in {"par", "seq"}
    /\ files = <<>>
    /\ status = IDLE
    /\ data = <<>>
    /\ error = Null
    /\ isOcrEnabled = (mode = "seq")
    /\ headerMapping = <<>>
    /\ currentFileIndex = -1
    /\ nextId = 0
    /\ readers = <<>>
    /\ runs = <<>>
    /\ last = NoCall
    /\ sheet = NoSheet

\* the App runs; nothing is put before extractDataFromDocument alone
NoProbe == response = NoText /\ result = NoResult /\ call = NoArgs /\ request = NoRequest

\* with the OCR adapters of utils/ocrUtils.ts, which catch everything
Init == InitApp /\ ocrRejects = FALSE /\ apiKey = TRUE /\ NoProbe

Next ==
    \/ handleFileUpload
    \/ ReaderOnload
    \/ handleCameraCapture
    \/ Remove
    \/ reset
    \/ DismissError
    \/ ToggleOcr
    \/ SaveMapping
    \/ Export
    \/ processBatch
    \/ ParOcrSettles
    \/ ParExtractSettles
    \/ SeqOcrSettles
    \/ SeqExtractSettles

Spec == Init /\ [][Next]_vars

\* every awaited OCR call and extraction call settles: a continuation that can run
\* is run
Settling ==
    /\ WF_vars(ParOcrSettles)
    /\ WF_vars(ParExtractSettles)
    /\ WF_vars(SeqOcrSettles)
    /\ WF_vars(SeqExtractSettles)
SpecSettling == Init /\ [][Next]_vars /\ Settling

\* the queue and the batch alone: the handlers of the mapping dialog and of the
\* Export button left out
NextBatch ==
    \/ handleFileUpload
    \/ ReaderOnload
    \/ handleCameraCapture
    \/ Remove
    \/ reset
    \/ DismissError
    \/ ToggleOcr
    \/ processBatch
    \/ ParOcrSettles
    \/ ParExtractSettles
    \/ SeqOcrSettles
    \/ SeqExtractSettles

\* the orchestrators against an OCR collaborator whose promise may reject
InitOcrRejects == InitApp /\ ocrRejects = TRUE /\ apiKey = TRUE /\ NoProbe
SpecOcrRejects == InitOcrRejects /\ [][NextBatch]_vars

\* the App built without process.env.API_KEY
InitNoCredential == InitApp /\ ocrRejects = FALSE /\ apiKey = FALSE /\ NoProbe
\* no records ever arrive, so the mapping and export buttons are never rendered
SpecNoCredential == InitNoCredential /\ [][NextBatch]_vars

\* ---------------------------------------------- export on its own inputs
\* result lists and saved mappings over the keys A and B, names taken and new
ExportRowLists ==
    {<<RowA(1, 1)>>, <<RowBA(1, 1)>>, <<RowA(1, 1), RowBA(1, 1)>>,
     <<RowBA(1, 1), RowA(1, 1)>>}
ExportNames == {"A", "B", "X", ""}
Mappings ==
    LET forA == {<<>>} \cup {<<Pair("A", name)>> : name \in ExportNames}
        forB == {<<>>} \cup {<<Pair("B", name)>> : name \in ExportNames}
    IN {a \o b : a \in forA, b \in forB}

\* the App after a successful run over one document, with any result and mapping; the
\* sequential App reports SUCCESS for an empty result too and keeps the mapping it had
InitExport ==
    /\ mode \in {"par", "seq"}
    /\ ocrRejects = FALSE
    /\ apiKey = TRUE
    /\ files = <<[NewFile(1, JPEG) EXCEPT !.status = "completed"]>>
    /\ status = SUCCESS
    /\ data \in ExportRowLists \cup (IF mode = "seq" THEN {<<>>} ELSE {})
    /\ error = Null
    /\ isOcrEnabled = (mode = "seq")
    /\ headerMapping \in Mappings
    /\ currentFileIndex = -1
    /\ nextId = 1
    /\ readers = <<>>
    /\ runs = <<Returned>>
    /\ last = NoCall
    /\ sheet = NoSheet
    /\ response = NoText
    /\ result = NoResult
    /\ call = NoArgs
    /\ request = NoRequest

NextExport ==
    \/ SaveMapping
    \/ Export

SpecExport == InitExport /\ [][NextExport]_vars

\* ------------------------------- extractDataFromDocument on its own inputs
\* JSON texts, bare and inside a fenced block: the opening fence ends its line, and
\* white space may stand before the block, before the closing fence and after the block
Blank == {<<>>, <<WS>>}
Openings == {<<FENCE, JSONTAG, WS>>, <<FENCE, WS>>}
FenceValues == JValues(1, 1) \cup JValues(2, 2) \cup {JNull}
Wrapped(v) ==
    {a \o open \o <<Val(v)>> \o c \o <<FENCE>> \o d :
        a \in Blank, open \in Openings, c \in Blank, d \in Blank}
FenceTexts == UNION {Wrapped(v) \cup {<<Val(v)>>} : v \in FenceValues}

InitParse ==
    /\ InitApp
    /\ mode = "par"
    /\ ocrRejects = FALSE
    /\ apiKey = TRUE
    /\ response \in {Text(t) : t \in FenceTexts}
    /\ result = NoResult
    /\ call = NoArgs
    /\ request = NoRequest

\* the part of extractDataFromDocument after await ai.models.generateContent
Parse ==
    /\ ~result.done
    /\ result' = Result(extractDataFromDocument(response))
    /\ UNCHANGED <<mode, ocrRejects, apiKey, response, files, status, data, error,
                   isOcrEnabled, headerMapping, currentFileIndex, nextId, readers,
                   runs, last, sheet, call, request>>

NextParse == Parse

SpecParse == InitParse /\ [][NextParse]_vars

\* ------------------- the request of extractDataFromDocument on its own inputs
\* the strings of WS and WORD of length n
RECURSIVE StringsOfLen(_)
StringsOfLen(n) ==
    IF n = 0 THEN {<<>>}
    ELSE {<<c>> \o t : c \in {WS, WORD}, t \in StringsOfLen(n - 1)}
OcrTexts == {Undefined} \cup {Str(t) : t \in UNION {StringsOfLen(n) : n \in 0..MaxOcrLen}}

InitRequest ==
    /\ InitApp
    /\ mode = "par"
    /\ ocrRejects = FALSE
    /\ apiKey = TRUE
    /\ response = NoText
    /\ result = NoResult
    /\ call \in [base64Data : {"bytes"}, mimeType : {PDF, JPEG}, ocrText : OcrTexts]
    /\ request = NoRequest

\* extractDataFromDocument up to ai.models.generateContent
BuildRequest ==
    /\ ~request.built
    /\ request' = Request(Parts(call.base64Data, call.mimeType, call.ocrText))
    /\ UNCHANGED <<mode, ocrRejects, apiKey, response, result, call, files, status, data,
                   error, isOcrEnabled, headerMapping, currentFileIndex, nextId, readers,
                   runs, last, sheet>>

NextRequest == BuildRequest

SpecRequest == InitRequest /\ [][NextRequest]_vars

\* ------------------------------------------------------ words of the claims
Finished == last.fin > 0
FinRun == runs[last.fin]
Docs(run) == 1..Len(run.snap)

\* extractDataFromDocument rejected for the k-th document of the run
CallFailed(run, k) == run.task[k].res = "threw"
CallSucceeded(run, k) == run.task[k].res \in {"array", "absent", "null"}

\* the records the k-th document's response carried
Records(run, k) == IF run.task[k].res = "array" THEN run.task[k].ret.rows ELSE <<>>
RECURSIVE RecordsFrom(_, _)
RecordsFrom(run, k) ==
    IF k > Len(run.snap) THEN <<>> ELSE Records(run, k) \o RecordsFrom(run, k + 1)

\* the queue entries of the document with this id
Entries(id) == {n \in 1..Len(files) : files[n].id = id}
MarkedError(id) == \A n \in Entries(id) : files[n].status = "error"

\* the run and the document a record came from, read off its first value
RunOf(row) == row.kv[1].v \div 100
DocOf(row) == (row.kv[1].v % 100) \div 10
PosIn(snap, id) == CHOOSE n \in 1..Len(snap) : snap[n].id = id
IsRecord(row) == row.kind = "record"

InFlightRuns == {r \in 1..Len(runs) : InFlight(r)}

\* ------------------------------------------------------------------- claims

\* C1: per-document failure isolation.  When a run over N > 1 documents returns and
\* exactly one document's extraction call failed while every other call succeeded,
\* the batch status is SUCCESS, data is the other documents' records in queue order,
\* and the failing document is marked 'error'.
C1_FailureIsolation ==
    Finished =>
        LET run == FinRun
            failed == {k \in Docs(run) : CallFailed(run, k)}
        IN (/\ Len(run.snap) > 1
            /\ Cardinality(failed) = 1
            /\ \A k \in Docs(run) \ failed : run.task[k].res = "array")
           => /\ status = SUCCESS
              /\ data = RecordsFrom(run, 1)
              /\ \A k \in failed : MarkedError(run.snap[k].id)

\* C2: all-fail aggregate.  When a run over a non-empty queue returns and every
\* document's extraction call failed, the batch status is ERROR and an error message
\* is set.
C2_AllFailAggregate ==
    Finished =>
        LET run == FinRun
        IN (Len(run.snap) > 0 /\ \A k \in Docs(run) : CallFailed(run, k))
           => (status = ERROR /\ error # Null)

\* C3: when a run returns and at least one document's extraction call succeeded (an
\* empty extracted_data array included), the batch status is SUCCESS; the status is
\* ERROR only if every call failed.
C3_SuccessIfAnySucceeded ==
    Finished =>
        LET run == FinRun
        IN /\ (\E k \in Docs(run) : CallSucceeded(run, k)) => status = SUCCESS
           /\ status = ERROR => \A k \in Docs(run) : CallFailed(run, k)

\* C4: order determinism.  Whenever a run returns and writes data, the records in data
\* stand in queue order of their documents, whatever the order in which the calls
\* settled, and data is the list the documents' records make when concatenated in
\* queue order (what the sequential loop pushes).
C4_OrderDeterminism ==
    (Finished /\ (mode = "seq" \/ status = SUCCESS)) =>
        LET run == FinRun
        IN /\ \A a, b \in 1..Len(data) :
                 (a < b /\ IsRecord(data[a]) /\ IsRecord(data[b]))
                 => /\ RunOf(data[a]) = last.fin
                    /\ PosIn(run.snap, DocOf(data[a])) <= PosIn(run.snap, DocOf(data[b]))
           /\ (\A k \in Docs(run) : run.task[k].ret.arr) => data = RecordsFrom(run, 1)

\* C4's case: in the parallel App the second document's call settled before the
\* first one's, both carried records, and the run has returned
C4_Witness ==
    /\ mode = "par"
    /\ Finished
    /\ last.op = "extract"
    /\ last.k = 1
    /\ Len(FinRun.snap) = 2
    /\ Records(FinRun, 1) # <<>>
    /\ Records(FinRun, 2) # <<>>
    /\ status = SUCCESS

\* C5: single active batch.  At most one processBatch run is in flight at any time.
C5_SingleActiveBatch == Cardinality(InFlightRuns) <= 1

\* C6: queue lock.  While a run is in flight neither the remove buttons nor the reset
\* button are offered.
C6_QueueLocked ==
    InFlightRuns # {} => (~(RemoveShown /\ Len(files) > 0) /\ ~ResetShown)

C8_MalformedResponse ==
    (mode = "par" /\ last.op = "extract" /\ last.inp = "junk") =>
        LET run == runs[last.r]
        IN /\ CallFailed(run, last.k)
           /\ run.task[last.k].ret = RetArray(<<>>)
           /\ MarkedError(run.snap[last.k].id)
           /\ (run.pc = "done") = AllDone(run.task)
           /\ run.pc = "done" => status \in {SUCCESS, ERROR}

\* C8's case: "not json" came back for one of two documents, the other document was
\* processed and gave records, and the run has returned
C8_Witness ==
    /\ mode = "par"
    /\ last.op = "extract"
    /\ last.inp = "junk"
    /\ Finished
    /\ Len(FinRun.snap) = 2
    /\ \E k \in Docs(FinRun) : Records(FinRun, k) # <<>>
    /\ \E n \in 1..Len(files) : files[n].status = "error"
    /\ \E n \in 1..Len(files) : files[n].status = "completed"

\* C9: a parsed response without an extracted_data array.  The extraction call fails,
\* the document is marked 'error', and data never holds an element that is no record.
C9_MissingArrayRejected ==
    /\ \A n \in 1..Len(data) : IsRecord(data[n])
    /\ (last.op = "extract" /\ last.jv = "absent") =>
          /\ CallFailed(runs[last.r], last.k)
          /\ MarkedError(runs[last.r].snap[last.k].id)

\* C10: the batch result is replaced.  When a run returns, data holds only records of
\* that run; before any run has returned data is empty.
C10_ResultReplaced ==
    /\ Finished => \A n \in 1..Len(data) : IsRecord(data[n]) => RunOf(data[n]) = last.fin
    /\ (\A r \in 1..Len(runs) : InFlight(r)) => data = <<>>

\* C11: per-document state machine.  In every step, a document that stays in the queue
\* and changes its status goes pending -> processing, processing -> completed or
\* processing -> error; a completed or failed document never changes again.
C11_DocumentStateMachine ==
    [][\A a \in 1..Len(files) : \A b \in 1..Len(files') :
          (files[a].id = files'[b].id /\ files[a].status # files'[b].status)
          => <<files[a].status, files'[b].status>> \in
                {<<"pending", "processing">>, <<"processing", "completed">>,
                 <<"processing", "error">>}]_vars

\* C12: the aggregate outcome comes after all documents are terminal.  In every step
\* that takes status from PROCESSING to SUCCESS or ERROR, every document then in the
\* queue is 'completed' or 'error'.
C12_OutcomeAfterAllTerminal ==
    [][(status = PROCESSING /\ status' \in {SUCCESS, ERROR})
          => \A n \in 1..Len(files') : files'[n].status \in {"completed", "error"}]_vars

\* the gate of the upload boundary, from the constants of constants.tsx
Admissible(file) == file.mimeType \in SUPPORTED_FILE_TYPES /\ file.size <= MAX_FILE_SIZE
Drop(seq, n) == SubSeq(seq, 1, n - 1) \o SubSeq(seq, n + 1, Len(seq))

\* C13: size/type gate.  In every step that delivers an uploaded file larger than
\* 10 MiB or of a type outside the allow-list, the queue stays as it was.
C13_UploadGate ==
    [][\A n \in 1..Len(readers) :
          (readers' = Drop(readers, n) /\ ~Admissible(readers[n])) => files' = files]_vars

\* C14: missing credential.  Without a credential no batch is started: no run is in
\* flight, no OCR or model call is pending, status is not PROCESSING and every queued
\* document is still 'pending' with its OCR untouched.
C14_MissingCredential ==
    ~apiKey =>
        /\ InFlightRuns = {}
        /\ status # PROCESSING
        /\ \A n \in 1..Len(files) :
              files[n].status = "pending" /\ files[n].ocrStatus = "idle"

\* the display name of a key under a mapping: the mapped name, the key if unmapped
DisplayName(mapping, key) == IF HasKey(mapping, key) THEN Get(mapping, key) ELSE key
Renamed(rows, mapping) ==
    [n \in 1..Len(rows) |->
        Rec([j \in 1..Len(rows[n].kv) |->
                Pair(DisplayName(mapping, rows[n].kv[j].k), rows[n].kv[j].v)])]
\* C15: the mapping is applied at export.  Whenever Export hands rows to the
\* spreadsheet writer, they are the rows of data with each key replaced by its
\* display name under the saved header mapping.
C15_MappingAppliedAtExport ==
    sheet.written => sheet.rows = Renamed(data, headerMapping)

\* C16: applying a mapping preserves rows and values.  The rows the sequential App's
\* handleExport hands over are as many as the rows of data, in the same order, and
\* each holds every value of its original row under the display name of that value's
\* key, also when two keys share a display name or a display name is empty.
C16_MappingPreservesContent ==
    (mode = "seq" /\ sheet.written) =>
        /\ Len(sheet.rows) = Len(data)
        /\ \A n \in 1..Len(data) : \A j \in 1..Len(data[n].kv) :
              \E i \in 1..Len(sheet.rows[n].kv) :
                  /\ sheet.rows[n].kv[i].k = DisplayName(headerMapping, data[n].kv[j].k)
                  /\ sheet.rows[n].kv[i].v = data[n].kv[j].v

\* C17: mapping idempotence.  Under a mapping that is the identity on every key of
\* the result (the empty mapping included), the exported rows are the rows of data,
\* keys and values unchanged.
C17_IdentityMappingUnchanged ==
    (/\ sheet.written
     /\ \A n \in 1..Len(data) : \A j \in 1..Len(data[n].kv) :
           DisplayName(headerMapping, data[n].kv[j].k) = data[n].kv[j].k)
    => sheet.rows = data

\* C17's case: the sequential App exported two rows, one of them with two keys, under
\* a saved mapping that names both keys and maps each to itself
C17_Witness ==
    /\ mode = "seq"
    /\ sheet.written
    /\ headerMapping = <<Pair("A", "A"), Pair("B", "B")>>
    /\ Len(data) = 2
    /\ sheet.rows = data

\* C18: the mapping after a successful run.  A step in which a run returns with
\* SUCCESS leaves the header mapping as the identity on the keys of the first record
\* of the new result; any other step that changes the mapping is a save of the
\* mapping dialog or a reset.
C18_MappingAfterSuccess ==
    [][/\ (last'.fin > 0 /\ status' = SUCCESS) =>
            LET recs == SelectSeq(data', IsRecord)
            IN recs # <<>> => headerMapping' = InitialMapping(recs[1])
       /\ headerMapping' # headerMapping =>
            \/ last'.fin > 0 /\ status' = SUCCESS
            \/ SaveMapping
            \/ reset]_vars

\* the JSON text inside a response, fence and white space left aside
Unwrapped(resp) == Text(SelectSeq(resp.text, LAMBDA tok : tok.c = "value"))

\* C19: markdown stripping round trip.  A response that wraps a JSON text in a fenced
\* block (with or without the json tag, white space around) gives the result that the
\* JSON text alone gives.
C19_FenceRoundTrip ==
    result.done => result.res = extractDataFromDocument(Unwrapped(response))

\* C20: empty response, in the App around the cited code (App.tsx).  For a response
\* without text extractDataFromDocument throws its empty-response error, nothing being
\* parsed.  In the step in which such a response arrives the document's queue entry
\* becomes 'error' and its callback returns no rows, while every other queue entry,
\* every other callback of the run and every other run stay as they were; and when the
\* run returns, data holds no record of a document whose call failed.
C20_EmptyResponse ==
    [][(mode = "par" /\ last'.op = "extract" /\ last'.inp = "none") =>
          LET r == last'.r
              k == last'.k
              id == runs[r].snap[k].id
          IN /\ \A resp \in {NoText, Text(<<>>)} :
                    extractDataFromDocument(resp) = Thrown("Empty response from AI")
             /\ runs'[r].task[k].res = "threw"
             /\ runs'[r].task[k].ret = RetArray(<<>>)
             /\ Len(files') = Len(files)
             /\ \A n \in 1..Len(files) :
                    IF files[n].id = id THEN files'[n].status = "error"
                    ELSE files'[n] = files[n]
             /\ \A j \in 1..Len(runs[r].task) : j # k => runs'[r].task[j] = runs[r].task[j]
             /\ \A q \in 1..Len(runs) : q # r => runs'[q] = Live[q]
             /\ last'.fin = r =>
                    \A n \in 1..Len(data') :
                        (IsRecord(data'[n]) /\ RunOf(data'[n]) = r)
                        => ~CallFailed(runs'[r], PosIn(runs[r].snap, DocOf(data'[n])))]_vars

\* C20's case: of two documents of a parallel run one got a response without text and
\* is marked 'error', the other one gave records and is 'completed', and the run has
\* returned with the other document's records
C20_Witness ==
    /\ mode = "par"
    /\ last.op = "extract"
    /\ last.inp = "none"
    /\ Finished
    /\ Len(FinRun.snap) = 2
    /\ \E k \in Docs(FinRun) : Records(FinRun, k) # <<>> /\ data = Records(FinRun, k)
    /\ \E n \in 1..Len(files) : files[n].status = "error"
    /\ \E n \in 1..Len(files) : files[n].status = "completed"
    /\ status = SUCCESS


\* C21: OCR disabled.  While a run started with OCR disabled is in flight, no OCR call
\* has been made for any of its documents, and every document whose processing has
\* started has ocrStatus 'skipped', whatever an earlier run left there.
C21_OcrDisabledSkipped ==
    \A r \in InFlightRuns :
        ~runs[r].ocr =>
            \A k \in Docs(runs[r]) :
                runs[r].task[k].pc # "idle" =>
                    /\ runs[r].task[k].pc # "ocr"
                    /\ runs[r].task[k].ocrOut = "-"
                    /\ \A n \in Entries(runs[r].snap[k].id) :
                          files[n].ocrStatus = "skipped"


\* C22: the OCR adapters never raise.  Whatever the library under them does,
\* extractTextFromPdf and performImageOcr deliver a string, the empty string when the
\* library fails; so every awaited OCR call of a run resolves, a failed recognition
\* hands the empty text on to the extraction, and no document's ocrStatus is 'error'.
C22_AdapterNeverRaises ==
    /\ \A lib \in LibOutcomes :
          \A out \in {extractTextFromPdf(lib), performImageOcr(lib)} :
              /\ out # "reject"
              /\ ~lib.ok => out = ""
    /\ last.op = "ocr" =>
          /\ last.inp = "resolved"
          /\ last.lib = "failed" => runs[last.r].task[last.k].ocrText = ""
    /\ \A n \in 1..Len(files) : files[n].ocrStatus # "error"

\* C22's case: the recognizer failed under an awaited OCR call, and the call resolved
C22_Witness ==
    /\ last.op = "ocr"
    /\ last.lib = "failed"
    /\ last.inp = "resolved"
    /\ runs[last.r].task[last.k].pc = "extract"


\* C23: per-document step order.  In a run with OCR enabled the extraction call of a
\* document that needs an OCR call is issued only after that OCR call has settled,
\* in both orchestrators; in the parallel one no document of a run stands waiting for
\* another document: each is inside one of its own calls or through with them.
C23_StepOrder ==
    \A r \in 1..Len(runs) :
        LET run == runs[r]
        IN \A k \in Docs(run) :
              /\ (/\ run.ocr
                  /\ NeedsOcrCall(run.snap[k])
                  /\ (run.task[k].pc = "extract" \/ run.task[k].res # "-"))
                 => run.task[k].ocrOut \in {"resolved", "reject"}
              /\ (~run.ocr \/ ~NeedsOcrCall(run.snap[k])) => run.task[k].pc # "ocr"
              /\ mode = "par" => run.task[k].pc \in {"ocr", "extract", "done"}

\* C23's case: in a parallel run with OCR over two images the second document's OCR
\* and extraction are both through while the first document's OCR call is still out
C23_Witness ==
    /\ mode = "par"
    /\ \E r \in InFlightRuns :
          /\ runs[r].ocr
          /\ Len(runs[r].snap) = 2
          /\ runs[r].task[1].pc = "ocr"
          /\ runs[r].task[2].pc = "done"
          /\ runs[r].task[2].ocrOut = "resolved"
          /\ runs[r].task[2].res # "-"


\* the OCR and extraction calls that are out
Outstanding ==
    {<<r, k>> \in (1..Len(runs)) \X (1..MaxIds) :
        /\ InFlight(r)
        /\ k <= Len(runs[r].snap)
        /\ runs[r].task[k].pc \in {"ocr", "extract"}}

StatusOf(fs, id) == {fs[n].status : n \in {m \in 1..Len(fs) : fs[m].id = id}}

\* C24: sequential mode.  After every step at most one OCR-or-extraction call is out;
\* a step in which the (i+1)-th document of a run in flight leaves 'pending' finds the
\* i-th document 'completed' or 'error'; and the documents of a run are through in
\* queue order.
C24_SequentialOrder ==
    [][mode = "seq" =>
        /\ Cardinality(Outstanding)' <= 1
        /\ \A r \in 1..Len(runs') :
              LET run == runs'[r]
              IN \A k \in Docs(run) :
                    k > 1 =>
                       /\ (/\ StatusOf(files, run.snap[k].id) = {"pending"}
                           /\ StatusOf(files', run.snap[k].id) # {"pending"}
                           /\ StatusOf(files', run.snap[k].id) # {})
                          => StatusOf(files', run.snap[k - 1].id)
                                \subseteq {"completed", "error"}
                       /\ run.task[k].pc = "done" => run.task[k - 1].pc = "done"
    ]_vars


\* C25: parallel dispatch.  The step of the parallel App that starts a run over N
\* documents leaves every one of them 'processing' with its first call out, OCR or
\* extraction, and none of them through: N calls of the run are outstanding at once.
C25_ParallelDispatch ==
    [][(mode = "par" /\ processBatch) =>
        LET r == Len(runs')
            run == runs'[r]
        IN /\ run.snap = files
           /\ \A k \in Docs(run) :
                 /\ StatusOf(files', run.snap[k].id) = {"processing"}
                 /\ run.task[k].pc \in {"ocr", "extract"}
                 /\ run.task[k].res = "-"
           /\ Cardinality({c \in Outstanding' : c[1] = r}) = Len(files)
    ]_vars

\* C25's case: a parallel run over two documents with both documents' calls out
C25_Witness ==
    /\ mode = "par"
    /\ \E r \in InFlightRuns :
          /\ Len(runs[r].snap) = 2
          /\ {<<r, 1>>, <<r, 2>>} \subseteq Outstanding
          /\ StatusOf(files, runs[r].snap[1].id) = {"processing"}
          /\ StatusOf(files, runs[r].snap[2].id) = {"processing"}


\* the queue entries of documents other than id are the same in fs and gs, and both
\* queues hold the same documents in the same order
FrameOf(fs, gs, id) ==
    /\ Len(gs) = Len(fs)
    /\ \A n \in 1..Len(fs) :
          /\ gs[n].id = fs[n].id
          /\ fs[n].id # id => gs[n] = fs[n]

\* C26: per-document frame in parallel mode.  The updates a map callback issues for its
\* document D when it starts, after its OCR await and after its extraction await
\* leave every other queue entry, and the order and membership of the queue, as they
\* were, whichever callback's await settles.
C26_ParallelFrame ==
    [][mode = "par" =>
        /\ \A n \in 1..Len(files) :
              FrameOf(files, ParStartFile(files, files[n], isOcrEnabled), files[n].id)
        /\ last'.op \in {"ocr", "extract"} =>
              FrameOf(files, files', runs[last'.r].snap[last'.k].id)
    ]_vars

\* C26's case: in the parallel App a callback's extraction await has settled and its
\* document is 'completed' while another queue entry is still 'processing'
C26_Witness ==
    /\ mode = "par"
    /\ last.op = "extract"
    /\ Len(files) = 2
    /\ \E n, m \in 1..Len(files) :
          /\ files[n].id = runs[last.r].snap[last.k].id
          /\ files[n].status = "completed"
          /\ files[m].id # files[n].id
          /\ files[m].status = "processing"


\* C27: sequential status updates stay with their document.  A step of the sequential
\* loop that settles a call of the i-th document of its run leaves the status and
\* ocrStatus of every queue entry of another document as they were, also when
\* documents were added or removed since the run started; the next document's
\* 'processing', which the same step may set, is the one exception.
C27_SequentialUpdateTarget ==
    [][(mode = "seq" /\ last'.op \in {"ocr", "extract"}) =>
        LET run == runs[last'.r]
            id == run.snap[last'.k].id
            next == IF last'.op = "extract" /\ last'.k < Len(run.snap)
                    THEN {run.snap[last'.k + 1].id} ELSE {}
        IN \A n \in 1..Len(files) :
              (files[n].id # id /\ n <= Len(files') /\ files'[n] # files[n])
              => files[n].id \in next
    ]_vars


\* C28: the current index of the sequential orchestrator.  After every step it is -1
\* when no run is in flight and otherwise the (0-based) position of the document the
\* run in flight is processing, and from step to step of a run it never decreases.
C28_CurrentIndex ==
    [][mode = "seq" =>
        /\ InFlightRuns' = {} => currentFileIndex' = -1
        /\ \A r \in InFlightRuns' : currentFileIndex' = runs'[r].i - 1
        /\ (InFlightRuns # {} /\ InFlightRuns' # {})
              => currentFileIndex' >= currentFileIndex
    ]_vars


\* an OCR text that is a string with a character other than white space in it
HasInk(s) == s.def /\ \E n \in 1..Len(s.text) : s.text[n] # WS

\* C29: the supplemental OCR part.  The request built for a missing, empty or
\* white-space-only OCR text has two parts, the document payload and the instruction;
\* for any other OCR text it has three: payload, the OCR text as it was given, the
\* instruction, in this order.
C29_SupplementalPart ==
    request.built =>
        LET payload == InlinePart(call.base64Data, call.mimeType)
            instruction == TextPart(<<MANDATORY>>)
        IN IF HasInk(call.ocrText)
           THEN request.parts =
                   <<payload, TextPart(<<SUPPLEMENT>> \o call.ocrText.text), instruction>>
           ELSE request.parts = <<payload, instruction>>

\* C29's case: a request was built for an OCR text of white space only
C29_Witness ==
    /\ request.built
    /\ call.ocrText.def
    /\ Len(call.ocrText.text) > 0
    /\ ~HasInk(call.ocrText)
    /\ Len(request.parts) = 2


\* C30: header derivation.  The header list of an empty result is empty; that of a
\* non-empty result is the keys of its first row, in that row's order and each once,
\* so a key that only later rows have is no header.
C30_HeadersFromFirstRow ==
    LET headers == originalHeaders(data)
    IN IF Len(data) = 0 THEN headers = <<>>
       ELSE /\ Len(headers) = Len(data[1].kv)
            /\ \A n \in 1..Len(headers) : headers[n] = data[1].kv[n].k
            /\ \A a, b \in 1..Len(headers) : a # b => headers[a] # headers[b]
            /\ \A m \in 2..Len(data) : \A j \in 1..Len(data[m].kv) :
                  ~HasKey(data[1].kv, data[m].kv[j].k)
                  => \A n \in 1..Len(headers) : headers[n] # data[m].kv[j].k

\* C30's case: the table is rendered for a result whose second row has a key that its
\* first row lacks
C30_Witness ==
    /\ Len(data) = 2
    /\ \E j \in 1..Len(data[2].kv) : ~HasKey(data[1].kv, data[2].kv[j].k)
    /\ originalHeaders(data) = <<"A">>
    /\ Mounted


\* C31: other media types.  In a run with OCR enabled a document that is neither a PDF
\* nor an image, once its processing has started, has no OCR call out or behind it,
\* goes to its extraction call with the empty OCR text, and is through only after that
\* call has settled; in the parallel App its queue entry has ocrStatus 'done' from the
\* step that started it.
C31_OtherMediaType ==
    \A r \in 1..Len(runs) :
        LET run == runs[r]
        IN \A k \in Docs(run) :
              (run.ocr /\ run.snap[k].mimeType # PDF /\ ~IsImage(run.snap[k].mimeType)
                 /\ run.task[k].pc # "idle")
              => /\ run.task[k].pc \in {"extract", "done"}
                 /\ run.task[k].ocrOut = "nocall"
                 /\ run.task[k].ocrText = ""
                 /\ run.task[k].pc = "done" => run.task[k].res # "-"
                 /\ mode = "par" =>
                       \A n \in Entries(run.snap[k].id) : files[n].ocrStatus = "done"

\* C31's case: a run with OCR enabled has put a text/plain document through its
\* extraction call
C31_Witness ==
    \E r \in 1..Len(runs) : \E k \in Docs(runs[r]) :
        /\ runs[r].ocr
        /\ runs[r].snap[k].mimeType = PLAIN
        /\ runs[r].task[k].pc = "done"
        /\ runs[r].task[k].res # "-"
        /\ Entries(runs[r].snap[k].id) # {}
        /\ \A n \in Entries(runs[r].snap[k].id) : files[n].ocrStatus = "done"


\* C32: termination.  With every call settling, a run that returns leaves the batch
\* status SUCCESS or ERROR and every document of the run that is in the queue
\* 'completed' or 'error'; and once no run is in flight no queue entry is 'processing',
\* where it would stay for good.
C32_Termination ==
    /\ Finished =>
          /\ status \in {SUCCESS, ERROR}
          /\ \A k \in Docs(FinRun) :
                StatusOf(files, FinRun.snap[k].id) \subseteq {"completed", "error"}
    /\ InFlightRuns = {} => \A n \in 1..Len(files) : files[n].status # "processing"


\* C33: a run works on its snapshot.  In the step in which a run returns, every queue
\* entry of a document that was added after the run started (one that is not in the
\* run's snapshot) is 'pending', and no record the run produced comes from such a
\* document.
C33_Snapshot ==
    Finished =>
        LET ids == {FinRun.snap[k].id : k \in Docs(FinRun)}
        IN /\ \A n \in 1..Len(files) :
                 files[n].id \notin ids => files[n].status = "pending"
           /\ \A n \in 1..Len(data) :
                 (IsRecord(data[n]) /\ RunOf(data[n]) = last.fin)
                 => DocOf(data[n]) \in ids


\* the k-th document of the run has been given the OCR step
GotOcrStep(run, k) == run.task[k].pc = "ocr" \/ run.task[k].ocrOut # "-"

\* C34: the OCR setting of a run.  A run keeps the setting of the OCR switch it was
\* started with, however the switch is turned while it is in flight: every document of
\* the run whose processing has started has been given the OCR step if the run was
\* started with OCR on, and none has if it was started with OCR off.
C34_OcrSettingPerRun ==
    [][/\ processBatch => runs'[Len(runs')].ocr = isOcrEnabled
       /\ \A r \in 1..Len(runs') :
             LET run == runs'[r]
             IN /\ (r <= Len(runs) /\ InFlight(r) /\ run.pc = "running")
                      => run.ocr = runs[r].ocr
                /\ \A k \in Docs(run) :
                      run.task[k].pc # "idle" => (GotOcrStep(run, k) <=> run.ocr)
    ]_vars

\* C34's case: the switch was turned off while a sequential run started with OCR on
\* was at its first document, and the second document has been given its OCR call
C34_Witness ==
    /\ mode = "seq"
    /\ ~isOcrEnabled
    /\ \E r \in InFlightRuns :
          /\ runs[r].ocr
          /\ Len(runs[r].snap) = 2
          /\ runs[r].task[2].pc = "ocr"


\* the session as it is when the App is opened
Clean ==
    /\ files = <<>>
    /\ data = <<>>
    /\ status = IDLE
    /\ error = Null
    /\ headerMapping = <<>>

\* C35: reset.  A reset leaves the queue and the result empty, the status IDLE, no
\* error message and an empty header mapping; and the step that follows a reset leaves
\* all of this as it is unless it adds a document to the queue.
C35_ResetStays ==
    [][/\ reset => Clean'
       /\ (last.op = "reset" /\ files' = <<>>) => Clean'
    ]_vars


\* C36: removal.  A click on a queue entry's X takes exactly that entry out of the
\* queue and keeps the others in their order.  With more than one entry queued it
\* leaves the result list, the header mapping and the batch status as they were, and
\* so it does in the parallel App with one entry queued; in the sequential App the
\* removal of the only entry empties the result list and the header mapping and sets
\* the status IDLE.
C36_RemoveFrame ==
    [][Remove =>
        /\ \E n \in 1..Len(files) :
              /\ files' = Drop(files, n)
              /\ \A m \in 1..Len(files) : m # n => files[m].id # files[n].id
        /\ (Len(files) > 1 \/ mode = "par") =>
              /\ data' = data
              /\ headerMapping' = headerMapping
              /\ status' = status
        /\ (Len(files) = 1 /\ mode = "seq") =>
              /\ data' = <<>>
              /\ headerMapping' = <<>>
              /\ status' = IDLE
    ]_vars

\* C36's case: after a run that gave records, one of two queued documents was removed
\* and the result is still there
C36_Witness ==
    /\ last.op = "remove"
    /\ Len(files) = 1
    /\ Len(data) > 0
    /\ status = SUCCESS
    /\ headerMapping # <<>>

\* ------------------------------------------------------------------------
====
